---- MODULE Spec2Model ----
(***************************************************************************)
(* Model of dooshki_args_parse (src/dooshki_args.c): the scan of argv, the *)
(* long and short option sub-routines, the typed argument conversion, the  *)
(* compaction of argv and the choice of the return value.                  *)
(*                                                                         *)
(* A C string is a sequence of one-character strings (without its '\0'),  *)
(* a C array is a function from 0-based indexes, a pointer to a caller's   *)
(* variable is that variable's name, and the caller's variables live in    *)
(* the function mem.  A `char' flag is the number 0 or 1, as in the code.  *)
(***************************************************************************)
EXTENDS Integers, Sequences, FiniteSets, TLC

\* ------------------------------------------------------------------ bounds

\* Most tokens that follow the program name in argv.
MaxArgs == 3

\* Width of `unsigned long' in bits (ULONG_MAX = 2^UlongBits - 1).
UlongBits == 4

\* ------------------------------------------------------------ C strings

\* The terminating '\0' of a string.
NUL == "NUL"

\* The null `char *': no string has an element that is not one character.
NULL == <<"NULL">>

\* The null pointer to a caller's variable or routine.
NULLP == "NULLP"

\* s[i] for 0 <= i <= strlen(s).
ChAt(s, i) == IF i < Len(s) THEN s[i + 1] ELSE NUL

\* The string s + i (pointer arithmetic inside s).
StrFrom(s, i) == SubSeq(s, i + 1, Len(s))

\* strcmp(a, b) == 0
StrEq(a, b) == a = b

\* strncmp(a, b, n) == 0: the first n characters agree, or both strings
\* end, at the same place, before that.
StrNEq(a, b, n) ==
    \A k \in 0..(n - 1) :
        (\A j \in 0..(k - 1) : ChAt(a, j) # NUL /\ ChAt(b, j) # NUL)
            => ChAt(a, k) = ChAt(b, k)

IsSpace(ch) == ch \in {" ", "\t", "\n"}

Digits == <<"0", "1", "2", "3", "4", "5", "6", "7", "8", "9">>

IsDigit(ch) == \E k \in 1..10 : Digits[k] = ch

DigitVal(ch) == (CHOOSE k \in 1..10 : Digits[k] = ch) - 1

ToLower(ch) ==
    CASE ch = "G" -> "g"
      [] ch = "O" -> "o"
      [] ch = "D" -> "d"
      [] OTHER -> ch

\* streq_ci of the demo: case insensitive equality.
streq_ci(in_a, in_b) ==
    /\ Len(in_a) = Len(in_b)
    /\ \A k \in 1..Len(in_a) : ToLower(in_a[k]) = ToLower(in_b[k])

\* ------------------------------------------------------------- constants

HELP_SHORT_OPT == "h"
HELP_LONG_OPT == <<"h", "e", "l", "p">>
VER_SHORT_OPT == "V"
VER_LONG_OPT == <<"v", "e", "r", "s", "i", "o", "n">>

ULONG_MAX == 2 ^ UlongBits - 1

DOOSHKI_ARGS_PARSE_OK == "DOOSHKI_ARGS_PARSE_OK"
DOOSHKI_ARGS_HELP_SHOWN == "DOOSHKI_ARGS_HELP_SHOWN"
DOOSHKI_ARGS_VER_SHOWN == "DOOSHKI_ARGS_VER_SHOWN"
DOOSHKI_ARGS_PARSE_ERROR == "DOOSHKI_ARGS_PARSE_ERROR"

\* ------------------------------------------------------- the option table

\* The caller's table: entries of the demo's cli_options (a, m, l, v, q; no
\* table entry here is of the INT or FLOAT type), a long-only UINT option
\* --count, a CB_NOARG option -n/--noarg, a long-only NEGBOOL option --off
\* on the variable of -a, two entries under names that are
\* taken (-a by the first entry, --help and -V by the built-in options), and
\* the all-NULL entry that ends it.
Opt(sn, ln, ty, st, fo, cb) ==
    [short_name |-> sn, long_name |-> ln, type |-> ty,
     opt_storage |-> st, opt_found |-> fo, callback |-> cb]

opt_desc ==
    << Opt(<<"a">>, <<"a","u","t","o","m","a","t","i","c">>,
           "DOOSHKI_OPT_BOOL", "automatic", "automatic_opt", NULLP),
       Opt(<<"m">>, NULL,
           "DOOSHKI_OPT_NEGBOOL", "automatic", "manual_opt", NULLP),
       Opt(<<"l">>, <<"l","a","b","e","l">>,
           "DOOSHKI_OPT_STR", "label", NULLP, NULLP),
       Opt(<<"v">>, NULL,
           "DOOSHKI_OPT_UINT", "velocity", "velocity_set", NULLP),
       Opt(<<"q">>, <<"q","u","a","l","i","t","y">>,
           "DOOSHKI_OPT_CB", "quality", "quality_set", "quality_arg_decode"),
       Opt(NULL, <<"c","o","u","n","t">>,
           "DOOSHKI_OPT_UINT", "count", "count_set", NULLP),
       Opt(<<"n">>, <<"n","o","a","r","g">>,
           "DOOSHKI_OPT_CB_NOARG", "calls", NULLP, "count_call"),
       Opt(NULL, <<"o","f","f">>,
           "DOOSHKI_OPT_NEGBOOL", "automatic", "off_opt", NULLP),
       Opt(<<"a">>, <<"h","e","l","p">>,
           "DOOSHKI_OPT_BOOL", "shadow", "shadow_opt", NULLP),
       Opt(<<"V">>, NULL,
           "DOOSHKI_OPT_NEGBOOL", "shadow", "shadow_opt", NULLP),
       Opt(NULL, NULL, "DOOSHKI_OPT_BOOL", NULLP, NULLP, NULLP) >>

\* The table entries the loops visit: those before the all-NULL entry
\* (opt_desc[iter] in C is opt_desc[iter + 1] here).
TableIters ==
    {k \in 1..Len(opt_desc) :
        \A j \in 1..k :
            opt_desc[j].short_name # NULL \/ opt_desc[j].long_name # NULL}

\* The caller's variables before the call.
InitMem ==
    [automatic |-> 0, automatic_opt |-> 0, manual_opt |-> 0,
     label |-> NULL,
     velocity |-> 0, velocity_set |-> 0,
     quality |-> "QUALITY_GOOD", quality_set |-> 0,
     count |-> 3, count_set |-> 0,
     calls |-> 0, calls_arg |-> <<"none yet">>,
     off_opt |-> 0,
     shadow |-> 0, shadow_opt |-> 0]

\* -------------------------------------------------- the parse's context

\* What is written to stderr: one record per message.
Msg(kind, opt, arg) == [kind |-> kind, opt |-> opt, arg |-> arg]

\* print_error: the message goes to stderr.
print_error(c, kind, opt, arg) ==
    [c EXCEPT !.stderr = Append(@, Msg(kind, opt, arg))]

\* History: what the parse did with argv[argi] (and its character pos).
Event(argi, pos, kind, desc, arg, from) ==
    [argi |-> argi, pos |-> pos, kind |-> kind, desc |-> desc,
     arg |-> arg, from |-> from]

Note(c, e) == [c EXCEPT !.events = Append(@, e)]

\* ------------------------------------------------- argument conversion

RECURSIVE SkipSpace(_, _)
SkipSpace(s, i) == IF IsSpace(ChAt(s, i)) THEN SkipSpace(s, i + 1) ELSE i

RECURSIVE DigitsEnd(_, _)
DigitsEnd(s, i) == IF IsDigit(ChAt(s, i)) THEN DigitsEnd(s, i + 1) ELSE i

\* The number the digits s[from .. to-1] write in base 10.
RECURSIVE DecVal(_, _, _)
DecVal(s, from, to) ==
    IF to <= from THEN 0
    ELSE 10 * DecVal(s, from, to - 1) + DigitVal(ChAt(s, to - 1))

\* strtoul(nptr, &endptr, 10) of the C library: white space, an optional
\* sign, digits.  val is the result, endp the index endptr points at,
\* erange whether errno is ERANGE afterwards.  Without a digit nothing is
\* converted; a value out of range gives ULONG_MAX; a '-' negates the value
\* in the unsigned type.
strtoul(nptr) ==
    LET i0 == SkipSpace(nptr, 0)
        neg == ChAt(nptr, i0) = "-"
        i1 == IF ChAt(nptr, i0) \in {"-", "+"} THEN i0 + 1 ELSE i0
        i2 == DigitsEnd(nptr, i1)
        acc == DecVal(nptr, i1, i2)
    IN  IF i2 = i1
        THEN [val |-> 0, endp |-> 0, erange |-> FALSE]
        ELSE IF acc > ULONG_MAX
        THEN [val |-> ULONG_MAX, endp |-> i2, erange |-> TRUE]
        ELSE [val |-> IF neg THEN (ULONG_MAX + 1 - acc) % (ULONG_MAX + 1)
                      ELSE acc,
              endp |-> i2, erange |-> FALSE]

\* The conversion routines return the context and the routine's result.
Ret(c, ok) == [c |-> c, ok |-> ok]

process_str_arg(c, option, argument) ==
    Ret([c EXCEPT !.mem[option.opt_storage] = argument], 1)

\* Faulty variant of process_uint_arg: errno is not looked at, ULONG_MAX
\* itself is taken for too large.
process_uint_arg_no_errno(c, option, opt_prefix, opt_name, argument) ==
    LET r == strtoul(argument)
        c1 == [c EXCEPT !.mem[option.opt_storage] = r.val]
    IN  IF ChAt(argument, r.endp) # NUL \/ ChAt(argument, 0) = "-"
        THEN Ret(print_error(c1, "not a valid unsigned integer",
                             opt_prefix \o opt_name, argument), 0)
        ELSE IF c1.mem[option.opt_storage] = ULONG_MAX
        THEN Ret(print_error(c1, "too large",
                             opt_prefix \o opt_name, argument), 0)
        ELSE Ret(c1, 1)

process_uint_arg(c, option, opt_prefix, opt_name, argument) ==
    LET r == strtoul(argument)
        c1 == [c EXCEPT !.mem[option.opt_storage] = r.val]
    IN  IF ChAt(argument, r.endp) # NUL \/ ChAt(argument, 0) = "-"
        THEN Ret(print_error(c1, "not a valid unsigned integer",
                             opt_prefix \o opt_name, argument), 0)
        ELSE IF c1.mem[option.opt_storage] = ULONG_MAX /\ r.erange
        THEN Ret(print_error(c1, "too large",
                             opt_prefix \o opt_name, argument), 0)
        ELSE Ret(c1, 1)

\* The demo's callback: good, bad or ugly, in any case of the letters; it
\* prints its own message when it fails.
quality_arg_decode(c, argument_text, opt_storage, opt_prefix, opt_name) ==
    IF streq_ci(argument_text, <<"g","o","o","d">>)
    THEN Ret([c EXCEPT !.mem[opt_storage] = "QUALITY_GOOD"], 1)
    ELSE IF streq_ci(argument_text, <<"b","a","d">>)
    THEN Ret([c EXCEPT !.mem[opt_storage] = "QUALITY_BAD"], 1)
    ELSE IF streq_ci(argument_text, <<"u","g","l","y">>)
    THEN Ret([c EXCEPT !.mem[opt_storage] = "QUALITY_UGLY"], 1)
    ELSE Ret(print_error(c, "not a valid quality specifier",
                         opt_prefix \o opt_name, argument_text), 0)

\* A caller's callback for an option without argument: it counts its calls
\* in its storage, keeps the argument_text it was given, and succeeds.
count_call(c, argument_text, opt_storage, opt_prefix, opt_name) ==
    Ret([c EXCEPT !.mem[opt_storage] = @ + 1,
                  !.mem.calls_arg = argument_text], 1)

\* option->callback(argument_text, opt_storage, opt_prefix, opt_name, data)
Call(c, option, argument_text, opt_prefix, opt_name) ==
    IF option.callback = "quality_arg_decode"
    THEN quality_arg_decode(c, argument_text, option.opt_storage,
                            opt_prefix, opt_name)
    ELSE count_call(c, argument_text, option.opt_storage,
                    opt_prefix, opt_name)

process_opt_arg(c, option, opt_is_long, argument) ==
    LET opt_prefix == IF opt_is_long = 1 THEN <<"-", "-">> ELSE <<"-">>
        opt_name == IF opt_is_long = 1 THEN option.long_name
                    ELSE option.short_name
    IN  CASE option.type = "DOOSHKI_OPT_STR" ->
               process_str_arg(c, option, argument)
          [] option.type = "DOOSHKI_OPT_UINT" ->
               process_uint_arg(c, option, opt_prefix, opt_name, argument)
          [] option.type = "DOOSHKI_OPT_CB" ->
               Call(c, option, argument, opt_prefix, opt_name)
          [] OTHER ->
               Ret(print_error(c, "Bug: Unknown argument type",
                               opt_prefix \o opt_name, NULL), 0)

\* --------------------------------------------------- option processing

Fail(c) == [c EXCEPT !.errors_found = 1]

\* Faulty variant of set_found: the flag of the table's first entry is set.
set_found_first(c, option) ==
    [c EXCEPT !.mem[opt_desc[1].opt_found] = 1]

\* *(option.opt_found) = 1 when the entry has an opt_found.
set_found(c, option) ==
    IF option.opt_found # NULLP
    THEN [c EXCEPT !.mem[option.opt_found] = 1]
    ELSE c

\* if (! *show_version) *show_help = 1;
set_help(c) ==
    IF c.show_version = 0 THEN [c EXCEPT !.show_help = 1] ELSE c

\* Faulty variant of set_version: the help flag is not looked at.
set_version_always(c) == [c EXCEPT !.show_version = 1]

\* if (! *show_help) *show_version = 1;
set_version(c) ==
    IF c.show_help = 0 THEN [c EXCEPT !.show_version = 1] ELSE c

\* Faulty variant of store_bool: BOOL stores 0 and NEGBOOL 1.
store_bool_negated(c, option, v) ==
    [c EXCEPT !.mem[option.opt_storage] = 1 - v]

\* Faulty variant of store_bool: 1 is stored whatever the type.
store_bool_true(c, option, v) == [c EXCEPT !.mem[option.opt_storage] = 1]

\* bool_ptr = option.opt_storage; *bool_ptr = v;
store_bool(c, option, v) == [c EXCEPT !.mem[option.opt_storage] = v]

\* Faulty variant of long_find_arg: the search begins at the option's own
\* word.
long_find_arg_from_own(av, ac, arg_iter) == arg_iter - 1

\* Faulty variant of long_find_arg: a "--" is taken as the argument.
RECURSIVE long_find_arg_takes_stopper(_, _, _)
long_find_arg_takes_stopper(av, ac, arg_iter) ==
    IF ~(arg_iter < ac) THEN 0
    ELSE IF av[arg_iter] # NULL THEN arg_iter
         ELSE long_find_arg_takes_stopper(av, ac, arg_iter + 1)

\* Faulty variant of long_find_arg: the search goes on beyond a "--".
RECURSIVE long_find_arg_crosses(_, _, _)
long_find_arg_crosses(av, ac, arg_iter) ==
    IF ~(arg_iter < ac) THEN 0
    ELSE IF av[arg_iter] # NULL /\ ~StrEq(av[arg_iter], <<"-", "-">>)
         THEN arg_iter
         ELSE long_find_arg_crosses(av, ac, arg_iter + 1)

\* The loop of process_long_opt that looks for the option's argument in
\* the words after it: the index of the first non-NULL word from arg_iter
\* on, or 0 (no argument) when there is none or when that word is "--".
RECURSIVE long_find_arg(_, _, _)
long_find_arg(av, ac, arg_iter) ==
    IF ~(arg_iter < ac) THEN 0
    ELSE IF av[arg_iter] # NULL
         THEN IF StrEq(av[arg_iter], <<"-", "-">>) THEN 0 ELSE arg_iter
         ELSE long_find_arg(av, ac, arg_iter + 1)

\* The same loop of process_short_opts.
RECURSIVE short_find_arg(_, _, _)
short_find_arg(av, ac, arg_iter) ==
    IF ~(arg_iter < ac) THEN 0
    ELSE IF av[arg_iter] # NULL
         THEN IF StrEq(av[arg_iter], <<"-", "-">>) THEN 0 ELSE arg_iter
         ELSE short_find_arg(av, ac, arg_iter + 1)

\* Faulty variant of take_arg: the word taken is not set to NULL.
take_arg_keeps(c, j) == [c EXCEPT !.role[j] = "value"]

\* argument = argv[j]; argv[j] = NULL
take_arg(c, j) ==
    [c EXCEPT !.argv[j] = NULL, !.role[j] = "value"]

\* The first index from iter on where option holds '\0' or '='.
RECURSIVE name_end(_, _)
name_end(option, iter) ==
    IF ChAt(option, iter) # NUL /\ ChAt(option, iter) # "="
    THEN name_end(option, iter + 1)
    ELSE iter

\* The table entries whose long name the first opt_len characters of the
\* option match.
long_hits(option, opt_len) ==
    {k \in TableIters :
        /\ opt_desc[k].long_name # NULL
        /\ StrNEq(StrFrom(option, 2), opt_desc[k].long_name, opt_len)}

\* The table entries whose short name is the character ch.
short_hits(ch) ==
    {k \in TableIters :
        /\ opt_desc[k].short_name # NULL
        /\ ch = ChAt(opt_desc[k].short_name, 0)}

\* Faulty variant of First: the last entry that matches is taken.
Last(S) == CHOOSE k \in S : \A j \in S : k >= j

First(S) == CHOOSE k \in S : \A j \in S : k <= j

\* The body of process_long_opt's loop for the entry iter that matched;
\* argument is the text after '=', or NULL.
long_matched(c, opt_argi, iter, argument) ==
    LET d == opt_desc[iter]
        c1 == set_found(c, d)
        name == <<"-", "-">> \o d.long_name
        unexpected ==
            Note(Fail(print_error(c1, "not expected", name, argument)),
                 Event(opt_argi, 0, "match", iter, argument, 0))
        noted == Note(c1, Event(opt_argi, 0, "match", iter, NULL, 0))
    IN  CASE d.type = "DOOSHKI_OPT_BOOL" ->
               IF argument # NULL THEN unexpected
               ELSE store_bool(noted, d, 1)
          [] d.type = "DOOSHKI_OPT_NEGBOOL" ->
               IF argument # NULL THEN unexpected
               ELSE store_bool(noted, d, 0)
          [] d.type = "DOOSHKI_OPT_CB_NOARG" ->
               IF argument # NULL THEN unexpected
               ELSE LET r == Call(noted, d, NULL, <<"-", "-">>, d.long_name)
                    IN  IF r.ok = 0 THEN Fail(r.c) ELSE r.c
          [] OTHER ->
               LET j == IF argument = NULL
                        THEN long_find_arg(c1.argv, c1.argc, opt_argi + 1)
                        ELSE 0
                   arg == IF argument # NULL THEN argument
                          ELSE IF j # 0 THEN c1.argv[j] ELSE NULL
                   c2 == Note(IF j # 0 THEN take_arg(c1, j) ELSE c1,
                              Event(opt_argi, 0, "match", iter, arg, j))
               IN  IF arg = NULL
                   THEN Fail(print_error(c2, "Missing argument", name, NULL))
                   ELSE LET r == process_opt_arg(c2, d, 1, arg)
                        IN  IF r.ok = 0 THEN Fail(r.c) ELSE r.c

process_long_opt(c, opt_argi) ==
    LET option == c.argv[opt_argi]
    IN  IF StrEq(option, <<"-", "-">> \o HELP_LONG_OPT)
        THEN Note(set_help(c),
                  Event(opt_argi, 0, "help", 0, NULL, 0))
        ELSE IF StrEq(option, <<"-", "-">> \o VER_LONG_OPT)
        THEN Note(set_version(c),
                  Event(opt_argi, 0, "version", 0, NULL, 0))
        ELSE
            LET iter == name_end(option, 2)
                opt_len == iter - 2
                argument == IF ChAt(option, iter) = "="
                            THEN StrFrom(option, iter + 1)
                            ELSE NULL
                hits == long_hits(option, opt_len)
            IN  IF hits # {}
                THEN long_matched(c, opt_argi, First(hits), argument)
                ELSE Note(Fail(print_error(c, "Unrecognized option",
                                           option, NULL)),
                          Event(opt_argi, 0, "unknown", 0, NULL, 0))

\* The body of process_short_opts's loop for the entry opt_iter that
\* matched the character at in_iter.
short_matched(c, opt_argi, in_iter, opt_iter) ==
    LET d == opt_desc[opt_iter]
        c1 == set_found(c, d)
        name == <<"-">> \o d.short_name
        noted == Note(c1, Event(opt_argi, in_iter, "match", opt_iter,
                                NULL, 0))
    IN  CASE d.type = "DOOSHKI_OPT_BOOL" ->
               store_bool(noted, d, 1)
          [] d.type = "DOOSHKI_OPT_NEGBOOL" ->
               store_bool(noted, d, 0)
          [] d.type = "DOOSHKI_OPT_CB_NOARG" ->
               LET r == Call(noted, d, NULL, <<"-">>, d.short_name)
               IN  IF r.ok = 0 THEN Fail(r.c) ELSE r.c
          [] OTHER ->
               LET j == short_find_arg(c1.argv, c1.argc, opt_argi + 1)
                   arg == IF j # 0 THEN c1.argv[j] ELSE NULL
                   c2 == Note(IF j # 0 THEN take_arg(c1, j) ELSE c1,
                              Event(opt_argi, in_iter, "match", opt_iter,
                                    arg, j))
               IN  IF arg = NULL
                   THEN Fail(print_error(c2, "Missing argument", name, NULL))
                   ELSE LET r == process_opt_arg(c2, d, 0, arg)
                        IN  IF r.ok = 0 THEN Fail(r.c) ELSE r.c

\* One round of process_short_opts's loop over the characters of the word:
\* the character at in_iter.
process_short_char(c, opt_argi, in_iter) ==
    LET ch == ChAt(c.argv[opt_argi], in_iter)
        hits == short_hits(ch)
    IN  IF ch = HELP_SHORT_OPT
        THEN Note(set_help(c),
                  Event(opt_argi, in_iter, "help", 0, NULL, 0))
        ELSE IF ch = VER_SHORT_OPT
        THEN Note(set_version(c),
                  Event(opt_argi, in_iter, "version", 0, NULL, 0))
        ELSE IF hits # {}
        THEN short_matched(c, opt_argi, in_iter, First(hits))
        ELSE Note(Fail(print_error(c, "Unrecognized option",
                                   <<"-", ch>>, NULL)),
                  Event(opt_argi, in_iter, "unknown", 0, NULL, 0))

\* process_short_opts: every character of the word after its dash.
RECURSIVE short_loop(_, _, _)
short_loop(c, opt_argi, in_iter) ==
    IF ChAt(c.argv[opt_argi], in_iter) # NUL
    THEN short_loop(process_short_char(c, opt_argi, in_iter),
                    opt_argi, in_iter + 1)
    ELSE c

process_short_opts(c, opt_argi) == short_loop(c, opt_argi, 1)

\* ----------------------------------------------------------- compaction

\* Faulty variant of pull_loop: the word moved forward is not cleared in
\* the place it came from.
RECURSIVE pull_loop_keeps(_, _, _, _)
pull_loop_keeps(av, ac, fill_iter, pull_iter) ==
    IF ~(pull_iter < ac) THEN av
    ELSE IF av[pull_iter] # NULL
         THEN [av EXCEPT ![fill_iter] = av[pull_iter]]
         ELSE pull_loop_keeps(av, ac, fill_iter, pull_iter + 1)

\* The inner loop of deflate_args_list: the first non-NULL word from
\* pull_iter on moves to fill_iter.
RECURSIVE pull_loop(_, _, _, _)
pull_loop(av, ac, fill_iter, pull_iter) ==
    IF ~(pull_iter < ac) THEN av
    ELSE IF av[pull_iter] # NULL
         THEN [av EXCEPT ![fill_iter] = av[pull_iter], ![pull_iter] = NULL]
         ELSE pull_loop(av, ac, fill_iter, pull_iter + 1)

\* The outer loop of deflate_args_list; it ends with the array and the
\* value of fill_iter.
RECURSIVE fill_loop(_, _, _)
fill_loop(av, ac, fill_iter) ==
    IF ~(fill_iter < ac) THEN [argv |-> av, fill_iter |-> fill_iter]
    ELSE LET a1 == IF av[fill_iter] = NULL
                   THEN pull_loop(av, ac, fill_iter, fill_iter + 1)
                   ELSE av
         IN  IF a1[fill_iter] = NULL
             THEN [argv |-> a1, fill_iter |-> fill_iter]
             ELSE fill_loop(a1, ac, fill_iter + 1)

\* Faulty variant of deflate_args_list: the words left are counted and not
\* moved.
deflate_args_list_counts(c) ==
    [c EXCEPT !.argc =
        1 + Cardinality({i \in 1..(c.argc - 1) : c.argv[i] # NULL})]

deflate_args_list(c) ==
    LET r == fill_loop(c.argv, c.argc, 1)
    IN  [c EXCEPT !.argv = r.argv, !.argc = r.fill_iter]

\* The blank line print_help's and print_version's callers and print_usage
\* put on stderr after error messages, and the return value.
parse_end(c) ==
    IF c.errors_found = 1
    THEN [c EXCEPT !.stderr = Append(@, Msg("blank line", NULL, NULL))]
    ELSE c

\* Faulty variant of parse_ret: the errors are looked at first.
parse_ret_errors_first(c) ==
    IF c.errors_found = 1 THEN DOOSHKI_ARGS_PARSE_ERROR
    ELSE IF c.show_help = 1 THEN DOOSHKI_ARGS_HELP_SHOWN
    ELSE IF c.show_version = 1 THEN DOOSHKI_ARGS_VER_SHOWN
    ELSE DOOSHKI_ARGS_PARSE_OK

parse_ret(c) ==
    IF c.show_help = 1 THEN DOOSHKI_ARGS_HELP_SHOWN
    ELSE IF c.show_version = 1 THEN DOOSHKI_ARGS_VER_SHOWN
    ELSE IF c.errors_found = 1 THEN DOOSHKI_ARGS_PARSE_ERROR
    ELSE DOOSHKI_ARGS_PARSE_OK

\* ------------------------------------------- the scan, as one operator

IsDashWord(w) == w # NULL /\ ChAt(w, 0) = "-"

IsStopper(w) == IsDashWord(w) /\ ChAt(w, 1) = "-" /\ ChAt(w, 2) = NUL

IsLongWord(w) == IsDashWord(w) /\ ChAt(w, 1) = "-" /\ ChAt(w, 2) # NUL

IsShortWord(w) == IsDashWord(w) /\ ChAt(w, 1) # "-"

Mark(c, i, r) == [c EXCEPT !.role[i] = r]

\* Faulty variant of clear_word: after an error the word is left in place.
clear_word_unless_error(c, i) ==
    IF c.errors_found = 1 THEN c ELSE [c EXCEPT !.argv[i] = NULL]

\* (*argv)[arg_iter] = NULL
clear_word(c, i) == [c EXCEPT !.argv[i] = NULL]

\* One round of dooshki_args_parse's loop: the context after it, and
\* whether the round reached the stopper.
scan_word(c, i) ==
    LET w == c.argv[i]
    IN  IF IsStopper(w)
        THEN [c |-> clear_word(Mark(c, i, "stopper"), i), stopper |-> 1]
        ELSE IF IsLongWord(w)
        THEN [c |-> clear_word(process_long_opt(Mark(c, i, "option"), i), i),
              stopper |-> 0]
        ELSE IF IsShortWord(w)
        THEN [c |-> clear_word(process_short_opts(Mark(c, i, "option"), i), i),
              stopper |-> 0]
        ELSE [c |-> c, stopper |-> 0]

\* Faulty variant of scan_goes_on: the stopper does not end the loop.
scan_goes_on_past_stopper(c, i, stopper) == i < c.argc

\* Faulty variant of scan_goes_on: the loop ends at the first error.
scan_goes_on_until_error(c, i, stopper) ==
    i < c.argc /\ stopper = 0 /\ c.errors_found = 0

\* The condition of dooshki_args_parse's loop.
scan_goes_on(c, i, stopper) == i < c.argc /\ stopper = 0

RECURSIVE scan_loop(_, _, _)
scan_loop(c, i, stopper) ==
    IF scan_goes_on(c, i, stopper)
    THEN LET r == scan_word(c, i)
         IN  scan_loop(r.c, i + 1, r.stopper)
    ELSE c

\* The context a call starts with.
StartCtx(ac, av, m) ==
    [argc |-> ac, argv |-> av, mem |-> m, stderr |-> <<>>,
     show_help |-> 0, show_version |-> 0, errors_found |-> 0,
     role |-> [i \in DOMAIN av |-> "none"], events |-> <<>>]

\* dooshki_args_parse(&argc, &argv, args_ctxt) as a whole: the context it
\* leaves and the value it returns.
dooshki_args_parse(ac, av, m) ==
    LET c == deflate_args_list(scan_loop(StartCtx(ac, av, m), 1, 0))
    IN  [c |-> parse_end(c), retval |-> parse_ret(c)]

\* ------------------------------------------------------------ the state

VARIABLES
    argc, argv,          \* the caller's argc and argv (argv[argc] included)
    mem,                 \* the caller's variables the table points to
    stderr,              \* the messages printed
    arg_iter, in_iter,   \* the loop counters of the scan
    stopper_reached, show_help, show_version, errors_found,
    retval,              \* what the call returned ("none" before it does)
    pc,                  \* where the call is
    argc0, argv0,        \* history: argc and argv as they were passed
    role,                \* history: what the scan took each word for
    events               \* history: what each option word or letter did

vars == <<argc, argv, mem, stderr, arg_iter, in_iter, stopper_reached,
          show_help, show_version, errors_found, retval, pc,
          argc0, argv0, role, events>>

Ctx ==
    [argc |-> argc, argv |-> argv, mem |-> mem, stderr |-> stderr,
     show_help |-> show_help, show_version |-> show_version,
     errors_found |-> errors_found, role |-> role, events |-> events]

SetCtx(c) ==
    /\ argc' = c.argc
    /\ argv' = c.argv
    /\ mem' = c.mem
    /\ stderr' = c.stderr
    /\ show_help' = c.show_help
    /\ show_version' = c.show_version
    /\ errors_found' = c.errors_found
    /\ role' = c.role
    /\ events' = c.events

\* ------------------------------------------------------------ the inputs

W_prog == <<"p", "r", "o", "g">>
W_good == <<"g", "o", "o", "d">>
W_7 == <<"7">>
W_a == <<"-", "a">>
W_m == <<"-", "m">>
W_h == <<"-", "h">>
W_V == <<"-", "V">>
W_v == <<"-", "v">>
W_l == <<"-", "l">>
W_q == <<"-", "q">>
W_za == <<"-", "z", "a">>
W_hV == <<"-", "h", "V">>
W_Vh == <<"-", "V", "h">>
W_lv == <<"-", "l", "v">>
W_lav == <<"-", "l", "a", "v">>
W_dash == <<"-">>
W_stop == <<"-", "-">>
W_help == <<"-", "-", "h", "e", "l", "p">>
W_version == <<"-", "-", "v", "e", "r", "s", "i", "o", "n">>
W_bogus == <<"-", "-", "b", "o", "g", "u", "s">>
W_label == <<"-", "-", "l", "a", "b", "e", "l">>
W_automatic_x ==
    <<"-", "-", "a", "u", "t", "o", "m", "a", "t", "i", "c", "=", "x">>
W_count == <<"-", "-", "c", "o", "u", "n", "t">>
W_count_abc == W_count \o <<"=", "a", "b", "c">>
W_count_7x == W_count \o <<"=", "7", "x">>
W_count_7 == W_count \o <<"=", "7">>
W_count_m7 == W_count \o <<"=", "-", "7">>
W_count_empty == W_count \o <<"=">>
\* The digits that write the number n in base 10.
RECURSIVE DecStr(_)
DecStr(n) ==
    LET d == <<"0","1","2","3","4","5","6","7","8","9">>[(n % 10) + 1]
    IN  IF n < 10 THEN <<d>> ELSE DecStr(n \div 10) \o <<d>>

W_max == DecStr(ULONG_MAX)
W_over == DecStr(ULONG_MAX + 1)
W_count_max == W_count \o <<"=">> \o W_max
W_count_over == W_count \o <<"=">> \o W_over
W_empty == <<>>
W_lab == <<"-", "-", "l", "a", "b">>
W_eq_x == <<"-", "-", "=", "x">>
W_label_good == W_label \o <<"=">> \o W_good
W_automatic == <<"-", "-", "a", "u", "t", "o", "m", "a", "t", "i", "c">>
W_off == <<"-", "-", "o", "f", "f">>
W_off_x == W_off \o <<"=", "x">>
W_noarg == <<"-", "-", "n", "o", "a", "r", "g">>
W_noarg_x == W_noarg \o <<"=", "x">>
W_m7 == <<"-", "7">>
W_7x == <<"7", "x">>
W_abc == <<"a", "b", "c">>

\* The words, after the program name, the command lines are made of.
VocabMain ==
    {W_good, W_7, W_a, W_za, W_bogus, W_label, W_v, W_automatic_x, W_q,
     W_h, W_version, W_stop, W_dash}

ProgsMain == {W_prog, W_a}

\* The sequences of at most n members of S.
SeqsUpTo(S, n) == UNION {[1..k -> S] : k \in 0..n}

\* The array main() gets for the words ws: argv[argc] is NULL.
MkArgv(ws) == [i \in 0..Len(ws) |-> IF i < Len(ws) THEN ws[i + 1] ELSE NULL]

\* The command lines: no word at all (argc = 0), or a program name and at
\* most MaxArgs words.
CmdLines(progs, vocab) ==
    {<<>>} \cup {<<p>> \o ws : p \in progs, ws \in SeqsUpTo(vocab, MaxArgs)}

\* The caller's call dooshki_args_parse(&argc, &argv, &ctxt) begins.
InitWith(progs, vocab) ==
    \E ws \in CmdLines(progs, vocab) :
        /\ argc0 = Len(ws)
        /\ argv0 = MkArgv(ws)
        /\ argc = Len(ws)
        /\ argv = MkArgv(ws)
        /\ mem = InitMem
        /\ stderr = <<>>
        /\ arg_iter = 1
        /\ in_iter = 0
        /\ stopper_reached = 0
        /\ show_help = 0
        /\ show_version = 0
        /\ errors_found = 0
        /\ retval = "none"
        /\ pc = "scan"
        /\ role = [i \in 0..Len(ws) |-> "none"]
        /\ events = <<>>

Init == InitWith(ProgsMain, VocabMain)

\* ----------------------------------------------------------- the steps

Scanning == pc = "scan" /\ scan_goes_on(Ctx, arg_iter, stopper_reached)

\* The word is NULL or does not begin with a dash: the loop goes on.
ScanOperand ==
    /\ Scanning
    /\ ~IsDashWord(argv[arg_iter])
    /\ arg_iter' = arg_iter + 1
    /\ UNCHANGED <<argc, argv, mem, stderr, in_iter, stopper_reached,
                   show_help, show_version, errors_found, retval, pc,
                   argc0, argv0, role, events>>

\* The word is "--".
ScanStopper ==
    /\ Scanning
    /\ IsStopper(argv[arg_iter])
    /\ stopper_reached' = 1
    /\ SetCtx(clear_word(Mark(Ctx, arg_iter, "stopper"), arg_iter))
    /\ arg_iter' = arg_iter + 1
    /\ UNCHANGED <<in_iter, retval, pc, argc0, argv0>>

\* The word is a long option.
ScanLong ==
    /\ Scanning
    /\ IsLongWord(argv[arg_iter])
    /\ SetCtx(clear_word(
           process_long_opt(Mark(Ctx, arg_iter, "option"), arg_iter),
           arg_iter))
    /\ arg_iter' = arg_iter + 1
    /\ UNCHANGED <<in_iter, stopper_reached, retval, pc, argc0, argv0>>

\* The word holds short options: process_short_opts begins.
ScanShort ==
    /\ Scanning
    /\ IsShortWord(argv[arg_iter])
    /\ SetCtx(Mark(Ctx, arg_iter, "option"))
    /\ in_iter' = 1
    /\ pc' = "short"
    /\ UNCHANGED <<arg_iter, stopper_reached, retval, argc0, argv0>>

\* One character of the word of short options.
ShortChar ==
    /\ pc = "short"
    /\ ChAt(argv[arg_iter], in_iter) # NUL
    /\ SetCtx(process_short_char(Ctx, arg_iter, in_iter))
    /\ in_iter' = in_iter + 1
    /\ UNCHANGED <<arg_iter, stopper_reached, retval, pc, argc0, argv0>>

\* process_short_opts returns, the word is cleared.
ShortEnd ==
    /\ pc = "short"
    /\ ChAt(argv[arg_iter], in_iter) = NUL
    /\ SetCtx(clear_word(Ctx, arg_iter))
    /\ arg_iter' = arg_iter + 1
    /\ in_iter' = 0
    /\ pc' = "scan"
    /\ UNCHANGED <<stopper_reached, retval, argc0, argv0>>

\* The scan is over: the compaction.
Deflate ==
    /\ pc = "scan"
    /\ ~scan_goes_on(Ctx, arg_iter, stopper_reached)
    /\ SetCtx(deflate_args_list(Ctx))
    /\ pc' = "return"
    /\ UNCHANGED <<arg_iter, in_iter, stopper_reached, retval, argc0, argv0>>

\* The call prints what it has to and returns.
Return ==
    /\ pc = "return"
    /\ SetCtx(parse_end(Ctx))
    /\ retval' = parse_ret(Ctx)
    /\ pc' = "done"
    /\ UNCHANGED <<arg_iter, in_iter, stopper_reached, argc0, argv0>>

Next ==
    \/ ScanOperand
    \/ ScanStopper
    \/ ScanLong
    \/ ScanShort
    \/ ShortChar
    \/ ShortEnd
    \/ Deflate
    \/ Return

Spec == Init /\ [][Next]_vars

\* The steps and the operator for the whole call agree.
StepsAgree ==
    pc = "done" =>
        LET r == dooshki_args_parse(argc0, argv0, InitMem)
        IN  r.c = Ctx /\ r.retval = retval

\* ------------------------------------------- more command lines to parse

W_ql == <<"-", "q", "l">>
W_9 == <<"9">>
W_vv == <<"-", "v", "v">>
W_bad == <<"b", "a", "d">>

\* Help and version words, alone and in one word.
VocabHV ==
    {W_hV, W_Vh, W_help, W_version, W_h, W_V, W_a, W_label, W_good, W_stop}

InitHV == InitWith({W_prog}, VocabHV)

SpecHV == InitHV /\ [][Next]_vars

\* Words of several short options, and the words they take.
VocabShort ==
    {W_lv, W_lav, W_ql, W_vv, W_l, W_v, W_a, W_m, W_good, W_bad, W_7, W_9,
     W_stop, W_label}

InitShort == InitWith({W_prog}, VocabShort)

SpecShort == InitShort /\ [][Next]_vars

\* Unsigned integer options and the texts given to them.
VocabUInt ==
    {W_count_abc, W_count_7x, W_count_7, W_count_m7, W_count_empty,
     W_count_max, W_count_over, W_count, W_v, W_empty, W_7, W_over, W_good,
     W_stop}

InitUInt == InitWith({W_prog}, VocabUInt)

SpecUInt == InitUInt /\ [][Next]_vars

\* Long options, whole and cut short, with and without "=".
VocabLong ==
    {W_lab, W_eq_x, W_label, W_label_good, W_automatic, W_automatic_x,
     W_off, W_off_x, W_noarg, W_noarg_x, W_help, W_a, W_good, W_stop}

InitLong == InitWith({W_prog}, VocabLong)

SpecLong == InitLong /\ [][Next]_vars

\* ------------------------------------------------- what the claims read

Done == pc = "done"

\* The indexes of the words after the program name, as they were passed.
Words == 1..(argc0 - 1)

\* The indexes among Words (in order) whose role is not in roles.
KeptIdx(roles) ==
    SelectSeq([i \in 1..(argc0 - 1) |-> i], LAMBDA i : role[i] \notin roles)

\* argv[0 .. argc-1] is argv0[0] followed by the words at idx, none NULL.
FinalIs(idx) ==
    /\ argc = 1 + Len(idx)
    /\ argv[0] = argv0[0]
    /\ \A k \in 1..Len(idx) : argv[k] = argv0[idx[k]]
    /\ \A k \in 0..(argc - 1) : argv[k] # NULL

\* The error messages on stderr.
ErrMsgs == SelectSeq(stderr, LAMBDA m : m.kind # "blank line")

MsgsOf(kind) == SelectSeq(stderr, LAMBDA m : m.kind = kind)

\* The index of the first "--" among the words passed, 0 when none is.
FirstStopper ==
    IF \E i \in Words : argv0[i] = W_stop
    THEN CHOOSE i \in Words :
             argv0[i] = W_stop /\ \A j \in 1..(i - 1) : argv0[j] # W_stop
    ELSE 0

\* ---------------------------------------------------------------- C1

\* C1 as claimed: after the call, argv[0 .. argc-1] is the program name
\* followed by the words that were neither processed as an option word nor
\* taken as an option's argument, in their order, none NULL, and argc is
\* their number.
C1_AsClaimed ==
    (Done /\ argc0 >= 1) => FinalIs(KeptIdx({"option", "value"}))

\* C1, amended: after the call, argv[0 .. argc-1] is the program name
\* (never scanned, even when it begins with a dash) followed by the words
\* that were neither processed as an option word, nor taken as an option's
\* argument, nor the "--" word the scan stopped at, in their order, none
\* NULL, and argc is their number.
C1_FinalArgv ==
    (Done /\ argc0 >= 1) =>
        /\ FinalIs(KeptIdx({"option", "value", "stopper"}))
        /\ role[0] = "none"
        /\ \A e \in 1..Len(events) : events[e].argi # 0

\* A program name with a dash, an option with its argument removed, a word
\* moved forward.
C1_Witness ==
    /\ Done
    /\ IsDashWord(argv0[0])
    /\ argc0 = 4
    /\ role[1] = "option" /\ role[2] = "value" /\ role[3] = "none"
    /\ argc = 2
    /\ argv[1] = argv0[3]

\* ---------------------------------------------------------------- C2

\* C2: the call returns one of the four values, only when the scan and the
\* compaction are over (retval is "none" before), by priority: help shown
\* when the help flag is set, else version shown when the version flag is
\* set, else parse error when an error message was printed, else ok.  For
\* `-h good --bogus' it is help shown, with one error printed.
C2_Outcome ==
    /\ ~Done => retval = "none"
    /\ Done =>
        /\ retval = (IF show_help = 1 THEN DOOSHKI_ARGS_HELP_SHOWN
                     ELSE IF show_version = 1 THEN DOOSHKI_ARGS_VER_SHOWN
                     ELSE IF ErrMsgs # <<>> THEN DOOSHKI_ARGS_PARSE_ERROR
                     ELSE DOOSHKI_ARGS_PARSE_OK)
        /\ (errors_found = 1) = (ErrMsgs # <<>>)
        /\ (argc0 >= 1 /\ \A i \in Words : role[i] = "none")
               => retval = DOOSHKI_ARGS_PARSE_OK
    /\ (Done /\ argc0 = 4 /\ argv0[1] = W_h /\ argv0[2] = W_good
             /\ argv0[3] = W_bogus)
           => (retval = DOOSHKI_ARGS_HELP_SHOWN /\ Len(ErrMsgs) = 1)
    /\ (Done /\ argc0 = 3 /\ argv0[1] = W_version /\ argv0[2] = W_bogus)
           => (retval = DOOSHKI_ARGS_VER_SHOWN /\ Len(ErrMsgs) = 1)
    /\ (Done /\ argc0 = 3 /\ argv0[1] = W_good /\ argv0[2] = W_bogus)
           => retval = DOOSHKI_ARGS_PARSE_ERROR

\* `-h good --bogus' has been parsed: help wins over the error.
C2_Witness ==
    /\ Done
    /\ argc0 = 4 /\ argv0[1] = W_h /\ argv0[2] = W_good /\ argv0[3] = W_bogus
    /\ show_help = 1 /\ errors_found = 1
    /\ retval = DOOSHKI_ARGS_HELP_SHOWN

\* ---------------------------------------------------------------- C3

\* How many characters of the short option word at i the scan has gone
\* through so far.
CharsDone(i) ==
    IF role[i] # "option" THEN 0
    ELSE IF pc = "short" /\ i = arg_iter THEN in_iter - 1
    ELSE Len(argv0[i]) - 1

\* The help ("h") and version ("V") triggers the scan has met so far in
\* the word at i, in their order.
TrigOfWord(i) ==
    IF role[i] # "option" THEN <<>>
    ELSE IF IsLongWord(argv0[i])
    THEN IF argv0[i] = <<"-", "-">> \o HELP_LONG_OPT THEN <<"h">>
         ELSE IF argv0[i] = <<"-", "-">> \o VER_LONG_OPT THEN <<"V">>
         ELSE <<>>
    ELSE SelectSeq(SubSeq(argv0[i], 2, 1 + CharsDone(i)),
                   LAMBDA ch : ch \in {HELP_SHORT_OPT, VER_SHORT_OPT})

\* The triggers met so far in the words 1 .. n.
RECURSIVE TrigUpTo(_)
TrigUpTo(n) == IF n < 1 THEN <<>> ELSE TrigUpTo(n - 1) \o TrigOfWord(n)

TrigSeq == TrigUpTo(argc0 - 1)

Flag(b) == IF b THEN 1 ELSE 0

\* C3: at every moment of the scan, and after it, the flag of the first
\* help or version trigger met so far (--help, --version, h or V inside a
\* word of short options) is set and the other flag is not, whatever
\* triggers followed; no flag is set before a trigger is met, the two flags
\* are never both set, and a flag that is set stays set.
C3_FirstTriggerWins ==
    /\ [](/\ ~(show_help = 1 /\ show_version = 1)
          /\ show_help = Flag(TrigSeq # <<>> /\ TrigSeq[1] = "h")
          /\ show_version = Flag(TrigSeq # <<>> /\ TrigSeq[1] = "V"))
    /\ [][/\ show_help = 1 => show_help' = 1
          /\ show_version = 1 => show_version' = 1]_vars

\* Inside the word -hV, after both letters: help is set, version is not.
C3_Witness ==
    /\ pc = "short"
    /\ argv0[arg_iter] = W_hV
    /\ in_iter = 3
    /\ TrigSeq = <<"h", "V">>
    /\ show_help = 1 /\ show_version = 0

\* ---------------------------------------------------------------- C4

\* The words argv0[0 .. k] as a command line of their own.
CutAfter(k) == MkArgv([i \in 1..(k + 1) |-> argv0[i - 1]])

\* C4: no word after the first "--" is ever taken for an option or for the
\* argument of an option before the "--"; after the call these words are
\* the end of argv[0 .. argc-1], in their order, and the caller's
\* variables, the messages, the flags and the return value are those of
\* the call on the command line cut after the "--".
C4_AfterStopper ==
    LET k == FirstStopper
    IN  (argc0 >= 1 /\ k # 0) =>
            /\ \A j \in (k + 1)..(argc0 - 1) : role[j] = "none"
            /\ \A e \in 1..Len(events) :
                   events[e].argi < k /\ events[e].from < k
            /\ Done =>
                   /\ argc - 1 >= argc0 - 1 - k
                   /\ \A t \in 1..(argc0 - 1 - k) :
                          argv[argc - t] = argv0[argc0 - t]
                   /\ LET r == dooshki_args_parse(k + 1, CutAfter(k), InitMem)
                      IN  /\ r.c.mem = mem
                          /\ r.c.stderr = stderr
                          /\ r.c.show_help = show_help
                          /\ r.c.show_version = show_version
                          /\ r.retval = retval

\* `--label -- -x': the option before the "--" misses its argument, the
\* word after the "--" begins with a dash and is still the last word.
C4_Witness ==
    /\ Done
    /\ argc0 = 4
    /\ argv0[1] = W_label /\ argv0[2] = W_stop /\ IsDashWord(argv0[3])
    /\ MsgsOf("Missing argument") # <<>>
    /\ argc = 2
    /\ argv[1] = argv0[3]

\* ---------------------------------------------------------------- C5

\* How many words before the word at k the scan left alone.
LeftBefore(k) == Cardinality({i \in 1..(k - 1) : role[i] = "none"})

\* C5 as claimed: when the scan reaches the "--" it stops, and the "--"
\* itself is not cleared and is still in argv after the call, at its place
\* among the words that remain.
C5_AsClaimed ==
    stopper_reached = 1 =>
        LET k == FirstStopper
        IN  /\ pc = "scan" => argv[k] = W_stop
            /\ Done => /\ argc > 1 + LeftBefore(k)
                       /\ argv[1 + LeftBefore(k)] = W_stop

\* C5, amended: when the scan reaches the "--" (it always reaches the first
\* one) it stops there and looks at no later word, the words after the "--"
\* are left as they are, and the "--" itself is cleared like an option
\* word: after the call argv[0 .. argc-1] is the program name, the words
\* before the "--" that the scan left alone and all the words after the
\* "--", in their order, without the "--".
C5_StopperRemoved ==
    LET k == FirstStopper
    IN  /\ (Done /\ argc0 >= 1 /\ k # 0) => stopper_reached = 1
        /\ stopper_reached = 1 =>
            /\ k # 0
            /\ role[k] = "stopper"
            /\ arg_iter = k + 1
            /\ pc # "short"
            /\ \A j \in (k + 1)..(argc0 - 1) : role[j] = "none"
            /\ pc = "scan" =>
                   /\ argv[k] = NULL
                   /\ \A j \in (k + 1)..(argc0 - 1) : argv[j] = argv0[j]
            /\ Done =>
                   FinalIs(SelectSeq([i \in 1..(argc0 - 1) |-> i],
                                     LAMBDA i : \/ i < k /\ role[i] = "none"
                                                \/ i > k))

\* `good -- -a' has been parsed: good and -a remain, the "--" does not.
C5_Witness ==
    /\ Done
    /\ stopper_reached = 1
    /\ argc0 = 4
    /\ argv0[1] = W_good /\ argv0[2] = W_stop /\ argv0[3] = W_a
    /\ argc = 3
    /\ argv[1] = W_good /\ argv[2] = W_a

\* ---------------------------------------------------------------- C6

\* The name of the long option word w: what stands between its two dashes
\* and its first '=' (or its end).
CandName(w) ==
    LET eqs == {i \in 3..Len(w) : w[i] = "="}
    IN  SubSeq(w, 3, IF eqs = {} THEN Len(w)
                     ELSE (CHOOSE i \in eqs : \A j \in eqs : i <= j) - 1)

\* The table entries that answer to the long name n: n is the beginning of
\* their long name.
LongEntries(n) ==
    {k \in TableIters :
        /\ opt_desc[k].long_name # NULL
        /\ Len(n) <= Len(opt_desc[k].long_name)
        /\ SubSeq(opt_desc[k].long_name, 1, Len(n)) = n}

\* The table entries that answer to the short option letter ch.
ShortEntries(ch) ==
    {k \in TableIters :
        opt_desc[k].short_name # NULL /\ opt_desc[k].short_name = <<ch>>}

IsBuiltinLong(w) ==
    w \in {<<"-", "-">> \o HELP_LONG_OPT, <<"-", "-">> \o VER_LONG_OPT}

UnknownLong(w) == ~IsBuiltinLong(w) /\ LongEntries(CandName(w)) = {}

UnknownChar(ch) ==
    ch \notin {HELP_SHORT_OPT, VER_SHORT_OPT} /\ ShortEntries(ch) = {}

\* The places <<word, character>> of the unknown options among the words
\* the scan took for option words (character 0: the long option word).
UnknownSpots ==
    {sp \in Words \X (0..8) :
        /\ role[sp[1]] = "option"
        /\ IF sp[2] = 0
           THEN IsLongWord(argv0[sp[1]]) /\ UnknownLong(argv0[sp[1]])
           ELSE /\ IsShortWord(argv0[sp[1]])
                /\ sp[2] < Len(argv0[sp[1]])
                /\ UnknownChar(argv0[sp[1]][sp[2] + 1])}

\* The text the message for the unknown option at sp names.
SpotText(sp) ==
    IF sp[2] = 0 THEN argv0[sp[1]] ELSE <<"-", argv0[sp[1]][sp[2] + 1]>>

RemoveAt(s, p) == SubSeq(s, 1, p - 1) \o SubSeq(s, p + 1, Len(s))

\* The command line passed, as a sequence of words, without the unknown
\* option at sp (the whole word, or the one letter of the word).
Without(sp) ==
    LET ws == [i \in 1..argc0 |-> argv0[i - 1]]
    IN  IF sp[2] = 0 THEN RemoveAt(ws, sp[1] + 1)
        ELSE [ws EXCEPT ![sp[1] + 1] = RemoveAt(@, sp[2] + 1)]

\* The words argv[0 .. argc-1] as a sequence.
ArgvSeq(av, ac) == [k \in 1..ac |-> av[k - 1]]

ErrsOf(msgs) == SelectSeq(msgs, LAMBDA m : m.kind # "blank line")

\* How many records of what the scan did are about the place <<i, pos>>.
EventsAt(i, pos) ==
    Cardinality({e \in 1..Len(events) :
                     events[e].argi = i /\ events[e].pos = pos})

\* C6: errors do not stop the scan.  After the call every word with a dash
\* before the "--" was taken for an option word or as an argument; every
\* long option word and every letter of every short option word was gone
\* through once; and every unknown long option word or short option letter
\* gave exactly one "Unrecognized option" message and nothing else: the
\* call on the command line without it leaves the same variables, flags
\* and words, and the same messages but that one.
C6_ErrorsAccumulate ==
    (Done /\ argc0 >= 1) =>
        /\ \A i \in Words :
               (IsDashWord(argv0[i]) /\ (FirstStopper = 0 \/ i < FirstStopper))
                   => role[i] \in {"option", "value"}
        /\ \A i \in Words :
               role[i] = "option" =>
                   IF IsLongWord(argv0[i]) THEN EventsAt(i, 0) = 1
                   ELSE \A pos \in 1..(Len(argv0[i]) - 1) : EventsAt(i, pos) = 1
        /\ Len(MsgsOf("Unrecognized option")) = Cardinality(UnknownSpots)
        /\ \A sp \in UnknownSpots :
               LET ws == Without(sp)
                   r == dooshki_args_parse(Len(ws), MkArgv(ws), InitMem)
                   m == Msg("Unrecognized option", SpotText(sp), NULL)
               IN  /\ r.c.mem = mem
                   /\ r.c.show_help = show_help
                   /\ r.c.show_version = show_version
                   /\ ArgvSeq(r.c.argv, r.c.argc) = ArgvSeq(argv, argc)
                   /\ \E p \in 1..Len(ErrMsgs) :
                          /\ ErrMsgs[p] = m
                          /\ RemoveAt(ErrMsgs, p) = ErrsOf(r.c.stderr)

\* `--bogus -za --label': three errors of two kinds, and the a after the
\* unknown z has set its variable.
C6_Witness ==
    /\ Done
    /\ argc0 = 4
    /\ argv0[1] = W_bogus /\ argv0[2] = W_za /\ argv0[3] = W_label
    /\ Len(MsgsOf("Unrecognized option")) = 2
    /\ Len(MsgsOf("Missing argument")) = 1
    /\ mem.automatic = 1 /\ mem.automatic_opt = 1
    /\ retval = DOOSHKI_ARGS_PARSE_ERROR

\* ---------------------------------------------------------------- C7

\* The short option letter ch is known and its option takes an argument.
TakesValue(ch) ==
    \E k \in ShortEntries(ch) :
        /\ \A j \in ShortEntries(ch) : k <= j
        /\ opt_desc[k].type \in
               {"DOOSHKI_OPT_STR", "DOOSHKI_OPT_UINT", "DOOSHKI_OPT_CB"}

\* The positions, in their order, of the letters of w that take an argument.
ValuePos(w) ==
    SelectSeq([k \in 1..(Len(w) - 1) |-> k], LAMBDA k : TakesValue(w[k + 1]))

\* w is a word of short options, all known, exactly two of which take an
\* argument, and these two are distinct.
IsCluster(w) ==
    /\ IsShortWord(w)
    /\ Len(w) >= 3
    /\ \A k \in 2..Len(w) : ~UnknownChar(w[k]) /\ w[k] \notin {"h", "V"}
    /\ Len(ValuePos(w)) = 2
    /\ w[ValuePos(w)[1] + 1] # w[ValuePos(w)[2] + 1]

\* The letters of w from the k-th on, each as a word of its own, each that
\* takes an argument followed by the next word of vals.
RECURSIVE Separate(_, _, _)
Separate(w, k, vals) ==
    IF k > Len(w) THEN vals
    ELSE IF TakesValue(w[k]) /\ vals # <<>>
    THEN <<<<"-", w[k]>>, Head(vals)>> \o Separate(w, k + 1, Tail(vals))
    ELSE <<<<"-", w[k]>>>> \o Separate(w, k + 1, vals)

\* The call on the words ws after the program name ends as this one did:
\* same variables, same messages, same flags, same return value, same words
\* left.
EndsAs(ws) ==
    LET all == <<argv0[0]>> \o ws
        r == dooshki_args_parse(Len(all), MkArgv(all), InitMem)
    IN  /\ r.c.mem = mem
        /\ r.c.stderr = stderr
        /\ r.c.show_help = show_help
        /\ r.c.show_version = show_version
        /\ r.c.errors_found = errors_found
        /\ r.retval = retval
        /\ ArgvSeq(r.c.argv, r.c.argc) = ArgvSeq(argv, argc)

\* The record of what the scan did at the letter pos of the word i.
EventAt(i, pos) ==
    events[CHOOSE e \in 1..Len(events) :
               events[e].argi = i /\ events[e].pos = pos]

\* C7 as claimed: for any words A and B, the call on `-fd A B' (f and d
\* distinct letters that take an argument, letters that take none allowed
\* among them) ends as the call on `-f A -d B' does.
C7_AsClaimed ==
    (Done /\ argc0 = 4 /\ IsCluster(argv0[1]))
        => EndsAs(Separate(argv0[1], 2, <<argv0[2], argv0[3]>>))

\* C7, amended: the same when A is not the word "--"; and then the first
\* letter that takes an argument has taken A and the second has taken B
\* (or found none when B is "--"), one word each, in the order of the
\* letters.
C7_ClusterAsSeparate ==
    (Done /\ argc0 = 4 /\ IsCluster(argv0[1]) /\ argv0[2] # W_stop) =>
        LET w == argv0[1]
            f == EventAt(1, ValuePos(w)[1])
            d == EventAt(1, ValuePos(w)[2])
        IN  /\ EndsAs(Separate(w, 2, <<argv0[2], argv0[3]>>))
            /\ f.kind = "match" /\ f.from = 2 /\ f.arg = argv0[2]
            /\ role[2] = "value"
            /\ d.kind = "match"
            /\ IF argv0[3] = W_stop
               THEN d.arg = NULL /\ role[3] = "stopper"
               ELSE d.from = 3 /\ d.arg = argv0[3] /\ role[3] = "value"
            /\ argc = 1

\* `-lav good 7': the label is good, the velocity 7, a is set, nothing is
\* left but the program name.
C7_Witness ==
    /\ Done
    /\ argc0 = 4
    /\ argv0[1] = W_lav /\ argv0[2] = W_good /\ argv0[3] = W_7
    /\ mem.label = W_good /\ mem.velocity = 7 /\ mem.automatic = 1
    /\ argc = 1
    /\ retval = DOOSHKI_ARGS_PARSE_OK
    /\ EndsAs(<<W_l, W_good, W_a, W_v, W_7>>)

\* ---------------------------------------------------------------- C8

\* The number the digits of s write.
RECURSIVE NumOf(_)
NumOf(s) ==
    IF s = <<>> THEN 0
    ELSE 10 * NumOf(SubSeq(s, 1, Len(s) - 1))
         + (CHOOSE n \in 0..9 : <<"0","1","2","3","4","5","6","7","8","9">>[n + 1]
                                    = s[Len(s)])

IsNumber(s) ==
    /\ s # <<>> /\ s # NULL
    /\ \A k \in 1..Len(s) : s[k] \in {"0","1","2","3","4","5","6","7","8","9"}
    /\ NumOf(s) <= ULONG_MAX

QualityOf(s) ==
    CASE s = <<"g","o","o","d">> -> "QUALITY_GOOD"
      [] s = <<"b","a","d">> -> "QUALITY_BAD"
      [] s = <<"u","g","l","y">> -> "QUALITY_UGLY"
      [] OTHER -> "none"

\* The table entry the option at the letter pos of the word i (pos 0: the
\* long option word i) answers to: the first that does.
EntryAt(i, pos) ==
    LET hits == IF pos = 0 THEN LongEntries(CandName(argv0[i]))
                ELSE ShortEntries(argv0[i][pos + 1])
    IN  CHOOSE k \in hits : \A j \in hits : k <= j

\* The value an occurrence e of an option with the argument e.arg is to
\* leave in the option's variable.
ValueOf(e) ==
    LET ty == opt_desc[e.desc].type
    IN  CASE ty = "DOOSHKI_OPT_BOOL" -> 1
          [] ty = "DOOSHKI_OPT_NEGBOOL" -> 0
          [] ty = "DOOSHKI_OPT_STR" -> e.arg
          [] ty = "DOOSHKI_OPT_UINT" -> NumOf(e.arg)
          [] ty = "DOOSHKI_OPT_CB" -> QualityOf(e.arg)

\* The occurrence e has a valid value: none for an option that takes none,
\* a text for a string, a number for an unsigned integer, good, bad or ugly
\* for the quality.
ValidOcc(e) ==
    LET ty == opt_desc[e.desc].type
    IN  /\ e.kind = "match"
        /\ ty \in {"DOOSHKI_OPT_BOOL", "DOOSHKI_OPT_NEGBOOL", "DOOSHKI_OPT_STR",
                   "DOOSHKI_OPT_UINT", "DOOSHKI_OPT_CB"}
        /\ ty \in {"DOOSHKI_OPT_BOOL", "DOOSHKI_OPT_NEGBOOL"} => e.arg = NULL
        /\ ty = "DOOSHKI_OPT_STR" => e.arg # NULL
        /\ ty = "DOOSHKI_OPT_UINT" => IsNumber(e.arg)
        /\ ty = "DOOSHKI_OPT_CB" => e.arg # NULL /\ QualityOf(e.arg) # "none"

\* The command line was made only of recognized options with valid values:
\* every word was an option word or the argument of one, and every
\* occurrence is valid.
OnlyValidOptions ==
    /\ argc0 >= 2
    /\ \A i \in Words : role[i] \in {"option", "value"}
    /\ \A e \in 1..Len(events) : ValidOcc(events[e])

\* The occurrences, in scan order, that write to the variable x.
WritersOf(x) ==
    SelectSeq(events, LAMBDA e : opt_desc[e.desc].opt_storage = x)

\* C8: last writer wins.  After the call on a command line made only of
\* recognized options with valid values, no error is registered; the
\* occurrences recorded are those of the words passed, in their order, each
\* of the first table entry of its name, with the argument it took; every
\* variable written holds the value of the last occurrence that writes to
\* it, every other its value from before; and the found-flag of every
\* option that occurred is 1.  `-m -a' leaves automatic 1, `-a -m' 0,
\* `-vv 7 9' leaves the velocity 9.
C8_LastWriterWins ==
    /\ (Done /\ OnlyValidOptions) =>
        /\ ErrMsgs = <<>> /\ retval = DOOSHKI_ARGS_PARSE_OK
        /\ \A e \in 1..Len(events) :
               LET ev == events[e]
               IN  /\ role[ev.argi] = "option"
                   /\ ev.desc = EntryAt(ev.argi, ev.pos)
                   /\ ev.from # 0 => ev.arg = argv0[ev.from]
                   /\ e > 1 => \/ events[e - 1].argi < ev.argi
                               \/ /\ events[e - 1].argi = ev.argi
                                  /\ events[e - 1].pos < ev.pos
                   /\ opt_desc[ev.desc].opt_found # NULLP
                          => mem[opt_desc[ev.desc].opt_found] = 1
        /\ \A x \in {"automatic", "label", "velocity", "quality", "count"} :
               LET ws == WritersOf(x)
               IN  mem[x] = IF ws = <<>> THEN InitMem[x]
                            ELSE ValueOf(ws[Len(ws)])
    /\ (Done /\ argc0 = 3 /\ argv0[1] = W_m /\ argv0[2] = W_a)
           => mem.automatic = 1
    /\ (Done /\ argc0 = 4 /\ argv0[1] = W_vv /\ argv0[2] = W_7
             /\ argv0[3] = W_9)
           => mem.velocity = 9
    /\ (Done /\ argc0 = 3 /\ argv0[1] = W_a /\ argv0[2] = W_m)
           => mem.automatic = 0

\* `-a -m -a' has been parsed: both found-flags are set and the last, -a,
\* has won.
C8_Witness ==
    /\ Done /\ OnlyValidOptions
    /\ argc0 = 4
    /\ argv0[1] = W_a /\ argv0[2] = W_m /\ argv0[3] = W_a
    /\ Len(WritersOf("automatic")) = 3
    /\ mem.automatic = 1 /\ mem.automatic_opt = 1 /\ mem.manual_opt = 1

\* ---------------------------------------------------------------- C9

\* s is a text of digits and nothing else, at least one.
IsDigits(s) ==
    /\ s # <<>> /\ s # NULL
    /\ \A k \in 1..Len(s) : s[k] \in {"0","1","2","3","4","5","6","7","8","9"}

\* The occurrences, in scan order, of unsigned integer options that were
\* given a text.
UIntOccs ==
    SelectSeq(events,
              LAMBDA e : /\ e.kind = "match"
                         /\ opt_desc[e.desc].type = "DOOSHKI_OPT_UINT"
                         /\ e.arg # NULL)

\* Those among them whose text is not an unsigned integer.
BadUIntOccs == SelectSeq(UIntOccs, LAMBDA e : ~IsDigits(e.arg))

\* C9 as claimed: after the call, each occurrence of an unsigned integer
\* option whose text is not an unsigned integer (`--count=abc') has
\* registered exactly one "not a valid unsigned integer" error, and a
\* variable that only such occurrences were to write holds the value it
\* held before the call.
C9_AsClaimed ==
    Done =>
        /\ Len(MsgsOf("not a valid unsigned integer")) = Len(BadUIntOccs)
        /\ \A x \in {"count", "velocity"} :
               (\A k \in 1..Len(UIntOccs) :
                    opt_desc[UIntOccs[k].desc].opt_storage = x
                        => ~IsDigits(UIntOccs[k].arg))
                   => mem[x] = InitMem[x]

\* `--count=abc' has been parsed: one error, and count, 3 before the call,
\* is 0.
C9_Witness ==
    /\ Done
    /\ argc0 = 2 /\ argv0[1] = W_count_abc
    /\ Len(BadUIntOccs) = 1
    /\ Len(ErrMsgs) = 1
    /\ ErrMsgs[1] =
           Msg("not a valid unsigned integer", W_count, <<"a", "b", "c">>)
    /\ InitMem.count = 3
    /\ mem.count = 0
    /\ retval = DOOSHKI_ARGS_PARSE_ERROR

\* --------------------------------------------------------------- C10

\* The text s has an error message of its own on stderr.
Rejected(s) ==
    \E k \in 1..Len(stderr) :
        /\ stderr[k].kind = "not a valid unsigned integer"
        /\ stderr[k].arg = s

\* C10 as claimed: after the call, every text given to an unsigned integer
\* option that is empty, begins with '-' or has a character that is no
\* digit has registered an error, and the call has not returned ok.
C10_AsClaimed ==
    Done =>
        \A k \in 1..Len(BadUIntOccs) :
            /\ Rejected(BadUIntOccs[k].arg)
            /\ errors_found = 1
            /\ retval # DOOSHKI_ARGS_PARSE_OK

\* `--count=' has been parsed: the empty text was taken for 0, without any
\* error.
C10_Witness ==
    /\ Done
    /\ argc0 = 2 /\ argv0[1] = W_count_empty
    /\ Len(BadUIntOccs) = 1 /\ BadUIntOccs[1].arg = <<>>
    /\ stderr = <<>>
    /\ errors_found = 0
    /\ mem.count = 0 /\ mem.count_set = 1
    /\ retval = DOOSHKI_ARGS_PARSE_OK

\* --------------------------------------------------------------- C11

\* The occurrences of unsigned integer options whose text is digits only,
\* and those among them whose number is beyond ULONG_MAX.
DigitOccs == SelectSeq(UIntOccs, LAMBDA e : IsDigits(e.arg))

OverOccs == SelectSeq(DigitOccs, LAMBDA e : NumOf(e.arg) > ULONG_MAX)

\* The messages of the kind about the text s.
MsgsAbout(kind, s) == SelectSeq(stderr, LAMBDA m : m.kind = kind /\ m.arg = s)

\* C11: after the call, a text of digits given to an unsigned integer
\* option whose number is beyond ULONG_MAX has a "too large" message and no
\* "not a valid unsigned integer" message; a text of digits whose number is
\* at most ULONG_MAX, ULONG_MAX itself included, has neither, and is the
\* value of its variable when it is the last to write it; there is one "too
\* large" message per occurrence beyond ULONG_MAX, and when every text given
\* was of digits these are all the errors of conversion.
C11_TooLarge ==
    Done =>
        /\ \A k \in 1..Len(DigitOccs) :
               LET e == DigitOccs[k]
                   x == opt_desc[e.desc].opt_storage
                   ws == SelectSeq(UIntOccs,
                                   LAMBDA w : opt_desc[w.desc].opt_storage = x)
               IN  /\ MsgsAbout("not a valid unsigned integer", e.arg) = <<>>
                   /\ IF NumOf(e.arg) > ULONG_MAX
                      THEN /\ MsgsAbout("too large", e.arg) # <<>>
                           /\ errors_found = 1
                           /\ retval # DOOSHKI_ARGS_PARSE_OK
                      ELSE /\ MsgsAbout("too large", e.arg) = <<>>
                           /\ ws[Len(ws)] = e => mem[x] = NumOf(e.arg)
        /\ Len(MsgsOf("too large")) = Len(OverOccs)
        /\ Len(DigitOccs) = Len(UIntOccs)
               => Len(MsgsOf("not a valid unsigned integer")) = 0

\* `--count=<ULONG_MAX> -v <ULONG_MAX + 1>': count is ULONG_MAX without an
\* error of its own, -v has the one error, too large.
C11_Witness ==
    /\ Done
    /\ argc0 = 4
    /\ argv0[1] = W_count_max /\ argv0[2] = W_v /\ argv0[3] = W_over
    /\ NumOf(W_max) = ULONG_MAX
    /\ mem.count = ULONG_MAX /\ mem.count_set = 1
    /\ ErrMsgs = <<Msg("too large", W_v, W_over)>>
    /\ retval = DOOSHKI_ARGS_PARSE_ERROR

\* --------------------------------------------------------------- C12

\* The places <<word, character>> (character 0: a long option word) of the
\* options the scan has met that answer to a table entry: words the scan
\* took for option words, the built-in help and version options aside.
KnownSpots ==
    {sp \in Words \X (0..8) :
        /\ role[sp[1]] = "option"
        /\ IF sp[2] = 0
           THEN /\ IsLongWord(argv0[sp[1]])
                /\ ~IsBuiltinLong(argv0[sp[1]])
                /\ LongEntries(CandName(argv0[sp[1]])) # {}
           ELSE /\ IsShortWord(argv0[sp[1]])
                /\ sp[2] < Len(argv0[sp[1]])
                /\ argv0[sp[1]][sp[2] + 1] \notin {HELP_SHORT_OPT, VER_SHORT_OPT}
                /\ ShortEntries(argv0[sp[1]][sp[2] + 1]) # {}}

\* The table entry k appeared: an option met answers to it.
Appeared(k) == \E sp \in KnownSpots : EntryAt(sp[1], sp[2]) = k

\* The table entries that have a found-flag.
Flagged == {k \in TableIters : opt_desc[k].opt_found # NULLP}

\* C12: after the call, the found-flag of a table entry is 1 when an option
\* word or a letter of a word of short options, scanned before the "--",
\* answered to the entry (whatever became of its argument), and else holds
\* its value from before the call.
C12_FoundIffAppeared ==
    Done =>
        \A k \in Flagged :
            \/ \E j \in Flagged :
                   /\ opt_desc[j].opt_found = opt_desc[k].opt_found
                   /\ Appeared(j)
                   /\ mem[opt_desc[k].opt_found] = 1
            \/ /\ \A j \in Flagged :
                      opt_desc[j].opt_found = opt_desc[k].opt_found
                          => ~Appeared(j)
               /\ mem[opt_desc[k].opt_found] = InitMem[opt_desc[k].opt_found]

\* `-v -- -q': velocity appeared, with an error (its argument is missing);
\* quality, after the "--", did not.
C12_Witness ==
    /\ Done
    /\ argc0 = 4
    /\ argv0[1] = W_v /\ argv0[2] = W_stop /\ argv0[3] = W_q
    /\ Appeared(4) /\ ~Appeared(5)
    /\ Len(ErrMsgs) = 1
    /\ mem.velocity_set = 1 /\ mem.quality_set = 0
    /\ mem.shadow_opt = 0

\* --------------------------------------------------------------- C13

\* C13 as claimed: whatever argc the caller passed, argc is never above it,
\* during the call or after it.
C13_AsClaimed == argc <= argc0

\* The call with argc = 0 and argv = {NULL} is over: argc is 1, and the one
\* word it counts is NULL.
C13_Witness ==
    /\ Done
    /\ argc0 = 0 /\ argv0[0] = NULL
    /\ argc = 1
    /\ argv[0] = NULL
    /\ retval = DOOSHKI_ARGS_PARSE_OK

\* --------------------------------------------------------------- C14

\* C14 as claimed: a word that is one dash and nothing more is an operand:
\* unless an option took it as its argument, the scan did not take it for
\* an option word, and after the call it is among the words left, as often
\* as it was passed.
C14_AsClaimed ==
    (Done /\ argc0 >= 1) =>
        /\ \A i \in Words :
               (argv0[i] = W_dash /\ role[i] # "value") => role[i] = "none"
        /\ Cardinality({k \in 1..(argc - 1) : argv[k] = W_dash})
               = Cardinality({i \in Words :
                                  argv0[i] = W_dash /\ role[i] # "value"})

\* `prog -' has been parsed: the dash went through process_short_opts, which
\* found no letter in it, and was removed, without a message.
C14_Witness ==
    /\ Done
    /\ argc0 = 2 /\ argv0[1] = W_dash
    /\ role[1] = "option"
    /\ events = <<>>
    /\ stderr = <<>>
    /\ argc = 1
    /\ retval = DOOSHKI_ARGS_PARSE_OK

\* --------------------------------------------------------------- C15

\* No long name of the table is the beginning of the long name of another
\* entry.
TablePrefixFree ==
    \A j, k \in TableIters :
        (j # k /\ opt_desc[j].long_name # NULL /\ opt_desc[k].long_name # NULL)
            => ~(/\ Len(opt_desc[j].long_name) <= Len(opt_desc[k].long_name)
                 /\ SubSeq(opt_desc[k].long_name, 1, Len(opt_desc[j].long_name))
                        = opt_desc[j].long_name)

\* The table entries whose long name is n, the whole of it.
ExactEntries(n) == {k \in TableIters : opt_desc[k].long_name = n}

\* The long option words the scan took for option words, the built-in help
\* and version options aside.
LongSpots ==
    {i \in Words :
        role[i] = "option" /\ IsLongWord(argv0[i]) /\ ~IsBuiltinLong(argv0[i])}

\* C15 as claimed: the table being prefix-free, after the call every long
\* option word was matched to the entry whose long name is the word's name
\* (the text between the "--" and the first "=" or the end), the whole of
\* it, and a word whose name is the name of no entry (`--lab', `--=x') was
\* matched to none and has its "Unrecognized option" message.
C15_AsClaimed ==
    (Done /\ TablePrefixFree) =>
        \A i \in LongSpots :
            LET e == EventAt(i, 0)
                hits == ExactEntries(CandName(argv0[i]))
            IN  IF hits = {}
                THEN /\ e.kind = "unknown"
                     /\ \E k \in 1..Len(stderr) :
                            /\ stderr[k].kind = "Unrecognized option"
                            /\ stderr[k].opt = argv0[i]
                ELSE e.kind = "match" /\ e.desc \in hits

\* `--lab good --=x' has been parsed: the label is good, --=x was taken for
\* --automatic with the argument x, and there is no "Unrecognized option"
\* message.
C15_Witness ==
    /\ Done /\ TablePrefixFree
    /\ argc0 = 4
    /\ argv0[1] = W_lab /\ argv0[2] = W_good /\ argv0[3] = W_eq_x
    /\ mem.label = W_good
    /\ mem.automatic_opt = 1
    /\ MsgsOf("Unrecognized option") = <<>>
    /\ ErrMsgs = <<Msg("not expected", W_automatic, <<"x">>)>>
    /\ argc = 1

\* --------------------------------------------------------------- C16

\* The text after the first "=" of the word w, NULL when w has no "=".
InlineOf(w) ==
    LET eqs == {i \in 3..Len(w) : w[i] = "="}
    IN  IF eqs = {} THEN NULL
        ELSE SubSeq(w, (CHOOSE i \in eqs : \A j \in eqs : i <= j) + 1, Len(w))

NeedsValue(k) ==
    opt_desc[k].type \in {"DOOSHKI_OPT_STR", "DOOSHKI_OPT_UINT", "DOOSHKI_OPT_CB"}

\* The long option words matched to an entry that takes an argument.
ValueSpots ==
    {i \in LongSpots :
        EventAt(i, 0).kind = "match" /\ NeedsValue(EventAt(i, 0).desc)}

\* The occurrences that took the word j as their argument.
TakersOf(j) == {e \in 1..Len(events) : events[e].from = j}

\* C16: after the call, for every long option word i matched to an entry
\* that takes an argument: with an inline "=value" the argument is the
\* inline text and the occurrence took no word; without, the argument is
\* the word i + 1 (no word after an option word under scan is consumed
\* yet), that word and no other was taken by the occurrence, unless there
\* is no word i + 1 or it is "--": then a "Missing argument" message names
\* the option, the occurrence took no word, the "--" is the stopper, and a
\* variable that only such occurrences were to write holds its value from
\* before the call.
C16_LongValue ==
    Done =>
        /\ \A i \in ValueSpots :
               LET e == EventAt(i, 0)
                   d == opt_desc[e.desc]
                   missing == Msg("Missing argument",
                                  <<"-", "-">> \o d.long_name, NULL)
               IN  IF InlineOf(argv0[i]) # NULL
                   THEN /\ e.arg = InlineOf(argv0[i])
                        /\ e.from = 0
                        /\ i + 1 < argc0 => role[i + 1] # "value"
                   ELSE IF i + 1 < argc0 /\ argv0[i + 1] # W_stop
                   THEN /\ e.arg = argv0[i + 1]
                        /\ e.from = i + 1
                        /\ role[i + 1] = "value"
                        /\ d.type = "DOOSHKI_OPT_STR"
                               => \E w \in 1..Len(events) :
                                      /\ events[w].desc = e.desc
                                      /\ mem[d.opt_storage] = events[w].arg
                   ELSE /\ e.arg = NULL
                        /\ e.from = 0
                        /\ \E k \in 1..Len(stderr) : stderr[k] = missing
                        /\ i + 1 < argc0 => role[i + 1] = "stopper"
        /\ \A j \in Words :
               /\ Cardinality(TakersOf(j)) <= 1
               /\ (role[j] = "value") = (TakersOf(j) # {})
        /\ \A x \in {"label", "quality", "count"} :
               (\A e \in 1..Len(events) :
                    (events[e].kind = "match"
                        /\ opt_desc[events[e].desc].opt_storage = x)
                        => events[e].arg = NULL)
                   => mem[x] = InitMem[x]
        /\ Len(MsgsOf("Missing argument"))
               = Cardinality({e \in 1..Len(events) :
                                  /\ events[e].kind = "match"
                                  /\ NeedsValue(events[e].desc)
                                  /\ events[e].arg = NULL})

\* `--label=good --label --': the first --label has its inline value and
\* takes no word, the second finds the "--" and misses its argument; the
\* label is still good.
C16_Witness ==
    /\ Done
    /\ argc0 = 4
    /\ argv0[1] = W_label_good /\ argv0[2] = W_label /\ argv0[3] = W_stop
    /\ ValueSpots = {1, 2}
    /\ mem.label = W_good
    /\ ErrMsgs = <<Msg("Missing argument", W_label, NULL)>>
    /\ argc = 1

\* --------------------------------------------------------------- C17

TakesNone(k) ==
    opt_desc[k].type \in
        {"DOOSHKI_OPT_BOOL", "DOOSHKI_OPT_NEGBOOL", "DOOSHKI_OPT_CB_NOARG"}

\* The long option words matched to an entry that takes no argument, and
\* those among them that carry an inline "=value".
NoneSpots ==
    {i \in LongSpots :
        EventAt(i, 0).kind = "match" /\ TakesNone(EventAt(i, 0).desc)}

InlineNoneSpots == {i \in NoneSpots : InlineOf(argv0[i]) # NULL}

\* The occurrences, in scan order, of options that take no argument and
\* were given none, that write to the variable x.
PlainWritersOf(x) ==
    SelectSeq(events,
              LAMBDA e : /\ e.kind = "match"
                         /\ TakesNone(e.desc)
                         /\ e.arg = NULL
                         /\ opt_desc[e.desc].opt_storage = x)

\* C17: after the call, every long option word with an inline "=value"
\* that was matched to a BOOL, NEGBOOL or CB_NOARG entry has its "not
\* expected" message, and but for that message and the entry's found-flag
\* the call ended as the call on the command line without the word: no
\* variable written, no callback called.  The variable of BOOL and NEGBOOL
\* entries holds 1 or 0 after the last occurrence without inline value that
\* writes it; the callback of a CB_NOARG entry was called once per
\* occurrence without inline value, with NULL for its argument text.
C17_NoArgKinds ==
    (Done /\ argc0 >= 1) =>
        /\ \A i \in InlineNoneSpots :
               LET d == opt_desc[EventAt(i, 0).desc]
                   m == Msg("not expected", <<"-", "-">> \o d.long_name,
                            InlineOf(argv0[i]))
                   ws == RemoveAt([k \in 1..argc0 |-> argv0[k - 1]], i + 1)
                   r == dooshki_args_parse(Len(ws), MkArgv(ws), InitMem)
               IN  /\ mem = IF d.opt_found = NULLP THEN r.c.mem
                            ELSE [r.c.mem EXCEPT ![d.opt_found] = 1]
                   /\ ArgvSeq(r.c.argv, r.c.argc) = ArgvSeq(argv, argc)
                   /\ \E p \in 1..Len(ErrMsgs) :
                          /\ ErrMsgs[p] = m
                          /\ RemoveAt(ErrMsgs, p) = ErrsOf(r.c.stderr)
        /\ Len(MsgsOf("not expected")) = Cardinality(InlineNoneSpots)
        /\ \A x \in {"automatic", "shadow"} :
               LET ws == PlainWritersOf(x)
               IN  mem[x] = IF ws = <<>> THEN InitMem[x]
                            ELSE IF opt_desc[ws[Len(ws)].desc].type
                                        = "DOOSHKI_OPT_BOOL"
                                 THEN 1 ELSE 0
        /\ mem.calls = InitMem.calls + Len(PlainWritersOf("calls"))
        /\ mem.calls_arg = IF PlainWritersOf("calls") = <<>>
                           THEN InitMem.calls_arg ELSE NULL

\* `--automatic --off=x --noarg': automatic is 1, --off=x has its message
\* and has not written, the callback was called once, with NULL.
C17_Witness ==
    /\ Done
    /\ argc0 = 4
    /\ argv0[1] = W_automatic /\ argv0[2] = W_off_x /\ argv0[3] = W_noarg
    /\ InlineNoneSpots = {2}
    /\ mem.automatic = 1 /\ mem.off_opt = 1
    /\ mem.calls = 1 /\ mem.calls_arg = NULL
    /\ ErrMsgs = <<Msg("not expected", W_off, <<"x">>)>>
    /\ retval = DOOSHKI_ARGS_PARSE_ERROR

\* --------------------------------------------------------------- C18

\* The occurrences of options met in the word i.
EventsOf(i) == {e \in 1..Len(events) : events[e].argi = i}

\* C18: at every moment of the call, a word after the program name was
\* gone through as an option word, or taken as the argument of one
\* occurrence of an option, or neither, never two of these: no option was
\* met in a word that was taken as an argument, dash or no dash; no word is
\* the argument of two occurrences; an argument is taken from a word after
\* the option's word; the program name is neither.  After `--label --help'
\* the label is --help and the help flag is not set.
C18_OneRole ==
    /\ \A i \in Words :
           /\ Cardinality(TakersOf(i)) <= 1
           /\ TakersOf(i) # {} => (EventsOf(i) = {} /\ role[i] = "value")
           /\ EventsOf(i) # {} => role[i] = "option"
           /\ role[i] \in {"option", "stopper"} => TakersOf(i) = {}
    /\ EventsOf(0) = {} /\ role[0] = "none"
    /\ \A e \in 1..Len(events) :
           events[e].from # 0 =>
               /\ events[e].from > events[e].argi
               /\ events[e].from < argc0
               /\ events[e].arg = argv0[events[e].from]
    /\ (Done /\ argc0 = 3 /\ argv0[1] = W_label /\ argv0[2] = W_help)
           => /\ mem.label = W_help
              /\ show_help = 0
              /\ stderr = <<>>
              /\ argc = 1
              /\ retval = DOOSHKI_ARGS_PARSE_OK

\* `--label --help --help' has been parsed: the first --help is the label,
\* the second is the option.
C18_Witness ==
    /\ Done
    /\ argc0 = 4
    /\ argv0[1] = W_label /\ argv0[2] = W_help /\ argv0[3] = W_help
    /\ TakersOf(2) # {} /\ EventsOf(2) = {}
    /\ EventsOf(3) # {}
    /\ mem.label = W_help
    /\ show_help = 1
    /\ retval = DOOSHKI_ARGS_HELP_SHOWN

\* --------------------------------------------------------------- C19

\* The call the caller makes again after the call, on the argc, argv and
\* variables the first one left.
Again == dooshki_args_parse(argc, argv, mem)

\* C19: after a call on a command line without a "--" word after the
\* program name, no word left after the program name begins with a dash,
\* and the same call made again changes nothing: argc and the array are
\* the same, no option is met, no variable is written, nothing is printed,
\* and it returns DOOSHKI_ARGS_PARSE_OK.
C19_AgainNothing ==
    (Done /\ FirstStopper = 0) =>
        /\ \A k \in 1..(argc - 1) : argv[k] # NULL /\ ~IsDashWord(argv[k])
        /\ Again.c.argc = argc
        /\ Again.c.argv = argv
        /\ Again.c.mem = mem
        /\ Again.c.events = <<>>
        /\ \A i \in DOMAIN argv : Again.c.role[i] = "none"
        /\ Again.c.stderr = <<>>
        /\ Again.c.show_help = 0 /\ Again.c.show_version = 0
        /\ Again.retval = DOOSHKI_ARGS_PARSE_OK

\* `--bogus good -za' has been parsed, with two errors; good is left, and
\* the call made again finds nothing to do.
C19_Witness ==
    /\ Done /\ FirstStopper = 0
    /\ argc0 = 4
    /\ argv0[1] = W_bogus /\ argv0[2] = W_good /\ argv0[3] = W_za
    /\ retval = DOOSHKI_ARGS_PARSE_ERROR
    /\ argc = 2 /\ argv[1] = W_good
    /\ mem.automatic = 1
    /\ Again.c.mem = mem
    /\ Again.retval = DOOSHKI_ARGS_PARSE_OK

\* --------------------------------------------------------------- C20

\* The variables of the caller the table entry k points to: its opt_storage
\* (with what its callback keeps there) and its opt_found.
VarsOf(k) ==
    {opt_desc[k].opt_storage}
    \cup (IF opt_desc[k].opt_found # NULLP THEN {opt_desc[k].opt_found} ELSE {})
    \cup (IF opt_desc[k].callback = "count_call" THEN {"calls_arg"} ELSE {})

Compacted == pc \in {"return", "done"}

\* C21: once compaction is over, for a call with argc >= 1, every slot of
\* the array from the new argc up to the old one is NULL and every slot
\* from 1 up to the new argc holds a word: the tail the words were moved
\* out of holds no copy of a word moved forward.  The program name and the
\* NULL that ends the array are where they were.
C21_TailIsNull ==
    (Compacted /\ argc0 >= 1) =>
        /\ argc >= 1 /\ argc <= argc0
        /\ \A i \in argc..(argc0 - 1) : argv[i] = NULL
        /\ \A i \in 1..(argc - 1) : argv[i] # NULL
        /\ argv[0] = argv0[0]
        /\ argv[argc0] = NULL

\* `--label good 7' has been parsed: 7 has moved from slot 3 to slot 1, and
\* the slots 2 and 3 are NULL.
C21_Witness ==
    /\ Done
    /\ argc0 = 4
    /\ argv0[1] = W_label /\ argv0[2] = W_good /\ argv0[3] = W_7
    /\ argc = 2
    /\ argv[1] = W_7
    /\ argv[2] = NULL /\ argv[3] = NULL

====
